---- MODULE Spec2Model ----
(***************************************************************************)
(* The agent pipeline of solar_flare_monitor.py: Agent1Monitor,            *)
(* Agent2Analyst, Agent3ReportWriter, Agent4Notifier and the orchestrator  *)
(* SolarFlareMonitoringSystem.run_cycle.                                   *)
(*                                                                         *)
(* Text is a sequence of tokens (<<>> is the empty string), an Optional    *)
(* value is a sequence of length at most one (<<>> is None), and "now" is  *)
(* the number of the running cycle.                                        *)
(***************************************************************************)
EXTENDS Integers, Sequences, FiniteSets

\* ------------------------------------------------------------------ bounds
\* run_cycle is started at most MaxCycles times
MaxCycles == 2
\* the feed returns at most MaxFeedLen records per fetch
MaxFeedLen == 2
\* at most MaxSignals stop signals are delivered
MaxSignals == 1

\* ------------------------------------------------------------ input domains
\* flrID values the feed uses
Ids == {"a", "b"}

\* JSON null / Python None inside a text-valued field
NoneText == <<"None">>

\* classType values of the feed: M1.0, X2.5, C3.2, '' (key missing) and null
ClassTypes ==
    { <<"M", "1", ".", "0">>, <<"X", "2", ".", "5">>, <<"C", "3", ".", "2">>,
      <<>>, NoneText }

\* peakTime values of the feed: an ISO timestamp, or null
PeakTimes == { <<"2024-05-10", "T16:30Z">>, NoneText }

\* linkedEvents of the feed: a list of activity ids, or null
LinkedEvents == { <<"CME-001">>, NoneText }

\* one raw record of the DONKI FLR feed, as flare_data.get() sees it
Records ==
    [ flrID : Ids, classType : ClassTypes, peakTime : PeakTimes,
      linkedEvents : LinkedEvents ]

VARIABLES
    gemini_api_key,     \* BaseAgent.gemini_api_key: configured or not
    serper_api_key,     \* Agent2Analyst.serper_api_key: configured or not
    email_config,       \* Agent4Notifier.email_config: supplied or not
    seen_flares,        \* Agent1Monitor.seen_flares
    last_check_time,    \* Agent1Monitor.last_check_time (<<>> is None)
    execution_log,      \* SolarFlareMonitoringSystem.execution_log
    pc,                 \* position of the thread of control inside run_cycle
    cycle,              \* number of run_cycle calls started (the clock)
    nread,              \* records of flares_data the detect loop has consumed
    fetch_ok,           \* _fetch_recent_flares returned data (FALSE: it returned [])
    new_flares,         \* local new_flares of _detect_new_flares
    contexts,           \* local contexts of run_cycle, as the Monitor returned it
    idx,                \* loop counter i of run_cycle (0 before the loop)
    context,            \* loop variable context of run_cycle: contexts[idx] as
                        \* the stages have enriched it (<<>> outside the loop)
    exc,                \* exception in flight or last caught: [stage, type]
    result,             \* what the last run_cycle call gave its caller
    seen0,              \* history: seen_flares when the running cycle started
    log0,               \* history: Len(execution_log) when the running cycle started
    feedIds,            \* history: flrIDs of the records read in this cycle
    feedSig,            \* history: flrIDs of the M/X records read in this cycle
    emitted,            \* history: flare ids of the contexts detect() has returned
    attempts,           \* history: the channels the distribute call of the
                        \* context in hand attempted, each with whether its
                        \* delivery went through
    signals,            \* number of stop signals (SIGINT) delivered so far
    files,              \* the reports directory: for each file name, the flare
                        \* id of the report the file holds
    threads             \* the request threads of the web server: for each, its
                        \* position in and its locals of run_cycle

cfgVars == <<gemini_api_key, serper_api_key, email_config>>
monitorVars == <<seen_flares, last_check_time>>
detectVars == <<nread, fetch_ok, new_flares>>
loopVars == <<contexts, idx, context>>
histVars == <<seen0, log0, feedIds, feedSig, emitted>>
vars ==
    <<cfgVars, monitorVars, execution_log, pc, cycle, detectVars, loopVars,
      exc, result, histVars, attempts, signals, files, threads>>

\* ------------------------------------------------------------------ strings
\* str.startswith(letter); None has no startswith and is handled by the caller
StartsWith(text, letter) == Len(text) >= 1 /\ text[1] = letter

\* text[1:]
Rest(text) == IF text = <<>> THEN <<>> ELSE Tail(text)

NoExc == [stage |-> "none", type |-> "none"]
NoResult == [kind |-> "none", value |-> 0]
Returned(n) == [kind |-> "returned", value |-> n]
Raised == [kind |-> "raised", value |-> 0]

\* records in the feed that one request's run_cycle fetches
MaxRequestFeedLen == 1

\* the request threads of the Flask server that handle POST /api/run-cycle
\* at the same time
Threads == {"t1", "t2"}

\* a thread that has no request to handle yet
IdleThread ==
    [ pc |-> "idle", fetch_ok |-> FALSE, nread |-> 0, held |-> <<>>,
      new_flares |-> <<>>, contexts |-> <<>>, idx |-> 0, exc |-> NoExc,
      result |-> NoResult ]

\* an empty reports directory
NoFiles == [name \in {} |-> ""]

\* no delivery channel has been attempted
NoAttempts == [ch \in {} |-> FALSE]

\* ------------------------------------------------------------- data classes
\* flare_data.get(key, default) for the keys the model keeps constant
SourceLocation == <<"N15W30">>
BeginTime == <<"2024-05-10", "T16:00Z">>
EndTime == <<"2024-05-10", "T17:00Z">>
ActiveRegionNum == <<"13664">>

\* SolarFlare(...) as _detect_new_flares builds it from a raw record
SolarFlare(r) ==
    [ flare_id |-> r.flrID,
      class_type |-> r.classType,
      source_location |-> SourceLocation,
      begin_time |-> BeginTime,
      peak_time |-> r.peakTime,
      end_time |-> EndTime,
      linked_events |-> r.linkedEvents,
      active_region_num |-> ActiveRegionNum ]

\* fault injection: a severity scale that has no rung for class C
severity_level_without_C(flare) ==
    IF StartsWith(flare.class_type, "X") THEN 3
    ELSE IF StartsWith(flare.class_type, "M") THEN 2
    ELSE 0

\* SolarFlare.severity_level
severity_level(flare) ==
    IF StartsWith(flare.class_type, "X") THEN 3
    ELSE IF StartsWith(flare.class_type, "M") THEN 2
    ELSE IF StartsWith(flare.class_type, "C") THEN 1
    ELSE 0

\* AgentContext(flare=flare); __post_init__ stamps it with now
AgentContext(flare, now) ==
    [ flare |-> flare,
      analysis_data |-> <<>>,
      report |-> <<>>,
      notification_results |-> <<>>,
      timestamp |-> now ]

\* ------------------------------------------------------ Agent 1: the Monitor
\* fault injection: a significance test that also lets C-class through
IsSignificantWithC(class_type) ==
    StartsWith(class_type, "M") \/ StartsWith(class_type, "X")
    \/ StartsWith(class_type, "C")

\* the significance test of _detect_new_flares
IsSignificant(class_type) ==
    StartsWith(class_type, "M") \/ StartsWith(class_type, "X")

\* fault injection: a Monitor that never consults its seen-set
AlreadySeenNever(flare_id, seen) == FALSE

\* "if flare_id in self.seen_flares: continue"
AlreadySeen(flare_id, seen) == flare_id \in seen

\* What one iteration of the loop of _detect_new_flares does with record r:
\* "skip" (already seen), "drop" (not significant), "new" (appended and marked
\* seen), or the exception it raises: None.startswith is an AttributeError,
\* iterating linkedEvents = None is a TypeError raised before the append.
DetectOutcome(r, seen) ==
    IF AlreadySeen(r.flrID, seen) THEN "skip"
    ELSE IF r.classType = NoneText THEN "AttributeError"
    ELSE IF ~IsSignificant(r.classType) THEN "drop"
    ELSE IF r.linkedEvents = NoneText THEN "TypeError"
    ELSE "new"

\* fault injection: the identifier is marked seen before the significance
\* test, so dropped records are marked too
SeenAfterAll(seen, r, o) ==
    IF o \in {"new", "drop"} THEN seen \cup {r.flrID} ELSE seen

\* fault injection: the seen-set is replaced by the new identifier instead of
\* being extended with it
SeenAfterReplaced(seen, r, o) == IF o = "new" THEN {r.flrID} ELSE seen

\* self.seen_flares after the iteration on record r with outcome o
SeenAfter(seen, r, o) == IF o = "new" THEN seen \cup {r.flrID} ELSE seen

\* new_flares after the iteration on record r with outcome o
NewFlaresAfter(flares, r, o) ==
    IF o = "new" THEN Append(flares, SolarFlare(r)) ELSE flares

\* [AgentContext(flare=flare) for flare in new_flares]
MakeContexts(flares, now) ==
    [k \in 1..Len(flares) |-> AgentContext(flares[k], now)]

FlareIds(ctxs) == [k \in 1..Len(ctxs) |-> ctxs[k].flare.flare_id]

TypeOK ==
    /\ gemini_api_key \in BOOLEAN /\ serper_api_key \in BOOLEAN
    /\ email_config \in BOOLEAN
    /\ seen_flares \subseteq Ids
    /\ cycle \in 0..MaxCycles
    /\ nread \in 0..MaxFeedLen
    /\ pc \in {"idle", "fetch", "detect", "loop", "analyst", "writer",
               "notifier", "log", "except", "stopped"}
    /\ DOMAIN attempts \subseteq {"console", "file", "email"}
    /\ signals \in Nat
    /\ \A name \in DOMAIN files : files[name] \in Ids
    /\ \A t \in Threads :
         threads[t].pc \in {"idle", "fetch", "check", "add", "loop", "done"}

Init ==
    /\ gemini_api_key \in BOOLEAN
    /\ serper_api_key \in BOOLEAN
    /\ email_config \in BOOLEAN
    /\ seen_flares = {}
    /\ last_check_time = <<>>
    /\ execution_log = <<>>
    /\ pc = "idle"
    /\ cycle = 0
    /\ nread = 0
    /\ fetch_ok = FALSE
    /\ new_flares = <<>>
    /\ contexts = <<>>
    /\ idx = 0
    /\ context = <<>>
    /\ exc = NoExc
    /\ result = NoResult
    /\ seen0 = {}
    /\ log0 = 0
    /\ feedIds = {}
    /\ feedSig = {}
    /\ emitted = <<>>
    /\ attempts = NoAttempts
    /\ signals = 0
    /\ files = NoFiles
    /\ threads = [t \in Threads |-> IdleThread]

\* run_cycle is called: the thread enters the try block and calls
\* self.monitor.execute()
RunCycle ==
    /\ pc = "idle"
    /\ cycle < MaxCycles
    /\ cycle' = cycle + 1
    /\ pc' = "fetch"
    /\ nread' = 0
    /\ fetch_ok' = FALSE
    /\ new_flares' = <<>>
    /\ contexts' = <<>>
    /\ idx' = 0
    /\ context' = <<>>
    /\ exc' = NoExc
    /\ result' = NoResult
    /\ seen0' = seen_flares
    /\ log0' = Len(execution_log)
    /\ feedIds' = {}
    /\ feedSig' = {}
    /\ UNCHANGED <<cfgVars, threads, files, attempts, signals, monitorVars,
                   execution_log, emitted>>

\* _fetch_recent_flares: the GET succeeds and gives the feed's records, or a
\* RequestException is caught and [] is returned
FetchRecentFlares ==
    /\ pc = "fetch"
    /\ \E ok \in BOOLEAN : fetch_ok' = ok
    /\ pc' = "detect"
    /\ UNCHANGED <<cfgVars, threads, files, attempts, signals, monitorVars,
                   execution_log, cycle, nread, new_flares, loopVars, exc,
                   result, histVars>>

\* one iteration of "for flare_data in flares_data": the feed's next record
\* is r
DetectRecord ==
    /\ pc = "detect"
    /\ fetch_ok
    /\ nread < MaxFeedLen
    /\ \E r \in Records :
         LET o == DetectOutcome(r, seen_flares) IN
         /\ nread' = nread + 1
         /\ feedIds' = feedIds \cup {r.flrID}
         /\ feedSig' = IF r.classType # NoneText /\ r.classType # <<>>
                          /\ r.classType[1] \in {"M", "X"}
                       THEN feedSig \cup {r.flrID} ELSE feedSig
         /\ new_flares' = NewFlaresAfter(new_flares, r, o)
         /\ seen_flares' = SeenAfter(seen_flares, r, o)
         /\ IF o \in {"AttributeError", "TypeError"}
            THEN /\ exc' = [stage |-> "Monitor", type |-> o]
                 /\ pc' = "except"
            ELSE UNCHANGED <<exc, pc>>
    /\ UNCHANGED <<cfgVars, threads, files, attempts, signals,
                   last_check_time, execution_log, cycle, fetch_ok, loopVars,
                   result, seen0, log0, emitted>>

\* the feed is exhausted: _detect_new_flares stamps last_check_time and
\* returns, and execute wraps every new flare in a context and returns; their
\* locals are gone
DetectReturn ==
    /\ pc = "detect"
    /\ last_check_time' = <<cycle>>
    /\ contexts' = MakeContexts(new_flares, cycle)
    /\ emitted' = emitted \o FlareIds(MakeContexts(new_flares, cycle))
    /\ nread' = 0
    /\ new_flares' = <<>>
    /\ pc' = "loop"
    /\ UNCHANGED <<cfgVars, threads, files, attempts, signals, seen_flares,
                   execution_log, cycle, fetch_ok, idx, context, exc, result,
                   seen0, log0, feedIds, feedSig>>

\* --------------------------------------------------------- BaseAgent
\* what the Gemini endpoint can answer: generated text, or nothing (the
\* request fails, the answer has no text)
GeminiReplies == { <<"gemini text">>, <<>> }

\* BaseAgent.call_gemini: "" without a key or when the request fails
call_gemini(key, reply) == IF ~key THEN <<>> ELSE reply

\* ------------------------------------------------------ Agent 2: the Analyst
\* _search_flare_context builds its query from flare.peak_time[:10]: a
\* peak_time of None is not subscriptable and the TypeError leaves execute
AnalystRaises(flare) == flare.peak_time = NoneText

\* the query string of _search_flare_context
SearchQuery(flare) ==
    <<"solar flare ">> \o flare.class_type \o <<" ", flare.peak_time[1]>>

\* _search_flare_context: the Serper answer when the key is set and the
\* request succeeds, the simulated empty result otherwise
search_flare_context(flare, key, ok) ==
    IF key /\ ok
    THEN [organic |-> <<"news">>, query |-> SearchQuery(flare)]
    ELSE [organic |-> <<>>, query |-> SearchQuery(flare)]

\* _fallback_analysis
fallback_analysis(flare) ==
    <<"A ">> \o flare.class_type \o
    <<" class solar flare represents ",
      IF StartsWith(flare.class_type, "X") THEN "severe" ELSE "moderate",
      " space weather activity">>

\* fault injection: the commentary is asked of the AI capability even when no
\* key is configured
analyze_with_gemini_unguarded(flare, key, reply) == call_gemini(key, reply)

\* _analyze_with_gemini
analyze_with_gemini(flare, key, reply) ==
    IF ~key THEN fallback_analysis(flare) ELSE call_gemini(key, reply)

\* _assess_severity
assess_severity(flare) ==
    LET level == severity_level(flare) IN
    IF level = 3
    THEN [level |-> "SEVERE", icon |-> "red", description |-> "Major event"]
    ELSE IF level = 2
    THEN [level |-> "MODERATE", icon |-> "orange",
          description |-> "Significant event"]
    ELSE IF level = 1
    THEN [level |-> "MINOR", icon |-> "yellow", description |-> "Minor event"]
    ELSE [level |-> "INFO", icon |-> "white", description |-> "Informational"]

\* _determine_impacts
determine_impacts(flare) ==
    LET class_letter ==
            IF flare.class_type # <<>> THEN flare.class_type[1] ELSE "C"
    IN  IF class_letter = "X"
        THEN <<"radio blackouts", "GPS disruptions", "power grid fluctuations",
               "radiation risk">>
        ELSE IF class_letter = "M"
        THEN <<"radio interference", "satellite disruptions",
               "limited HF impact", "auroral activity">>
        ELSE <<"Minimal impact expected">>

DigitChars == <<"0", "1", "2", "3", "4", "5", "6", "7", "8", "9">>
IsDigit(c) == \E d \in 1..10 : DigitChars[d] = c
DigitValue(c) == (CHOOSE d \in 1..10 : DigitChars[d] = c) - 1

RECURSIVE DecimalValue(_)
\* int() of a sequence of digits ('' counts 0)
DecimalValue(digits) ==
    IF digits = <<>> THEN 0
    ELSE 10 * DecimalValue(SubSeq(digits, 1, Len(digits) - 1))
         + DigitValue(digits[Len(digits)])

\* float(text) in tenths, rounded down, for text made of digits and at most
\* one point; -1 stands for the ValueError float raises on anything else
\* (signs, exponents, inf and nan are outside the class types the model uses)
FloatTenths(text) ==
    LET dots == {k \in 1..Len(text) : text[k] = "."}
        ok == /\ \A k \in 1..Len(text) : IsDigit(text[k]) \/ text[k] = "."
              /\ Cardinality(dots) <= 1
              /\ \E k \in 1..Len(text) : IsDigit(text[k])
        dot == IF dots = {} THEN Len(text) + 1 ELSE CHOOSE k \in dots : TRUE
        whole == SubSeq(text, 1, dot - 1)
        tenth == IF dot + 1 <= Len(text) THEN DigitValue(text[dot + 1]) ELSE 0
    IN  IF ok THEN 10 * DecimalValue(whole) + tenth ELSE -1

\* class_magnitude of _determine_regions, in tenths: 1.0 when float() raises
ClassMagnitude(flare) ==
    LET parsed == FloatTenths(Rest(flare.class_type)) IN
    IF parsed = -1 THEN 10 ELSE parsed

GlobalRegions ==
    <<"Global (all longitudes)", "High-latitude regions",
      "Polar flight routes", "HF radio communication zones">>
SunlitRegions ==
    <<"Sunlit hemisphere at time of peak", "High-frequency radio users",
      "Satellite operators">>

\* fault injection: the magnitude threshold is exclusive
determine_regions_above(flare) ==
    IF StartsWith(flare.class_type, "X") \/ ClassMagnitude(flare) > 50
    THEN GlobalRegions ELSE SunlitRegions

\* _determine_regions
determine_regions(flare) ==
    IF StartsWith(flare.class_type, "X") \/ ClassMagnitude(flare) >= 50
    THEN GlobalRegions ELSE SunlitRegions

\* Agent2Analyst.execute on a flare whose peak_time is a string: the context
\* with analysis_data set
AnalystExecute(ctx, gemini_key, serper_key, search_ok, reply, now) ==
    [ctx EXCEPT !.analysis_data =
        << [ search_results |->
                 search_flare_context(ctx.flare, serper_key, search_ok),
             gemini_analysis |->
                 analyze_with_gemini(ctx.flare, gemini_key, reply),
             severity_assessment |-> assess_severity(ctx.flare),
             potential_impacts |-> determine_impacts(ctx.flare),
             affected_regions |-> determine_regions(ctx.flare),
             timestamp |-> now ] >>]

\* ------------------------------------------------ Agent 3: the Report Writer
\* _format_time: a parsable ISO timestamp is reformatted, anything else (None
\* included: the AttributeError is swallowed) comes back as it is
format_time(iso_time) ==
    IF iso_time = NoneText THEN iso_time ELSE <<iso_time[1], " HH:MM UTC">>

\* the metadata footer _generate_gemini_report appends
GeminiFooter(flare) == <<"Report ID: ", flare.flare_id, "Powered by Gemini AI">>

\* the text of _generate_template_report, given what _format_time made of
\* flare.begin_time
template_report_with(ctx, begin_text) ==
    LET flare == ctx.flare
        has == ctx.analysis_data # <<>>
        level == IF has THEN ctx.analysis_data[1].severity_assessment.level
                 ELSE "INFO"
        icon == IF has THEN ctx.analysis_data[1].severity_assessment.icon
                ELSE "white"
        narrative == IF has THEN ctx.analysis_data[1].gemini_analysis
                     ELSE <<"AI analysis unavailable">>
        impacts == IF has THEN ctx.analysis_data[1].potential_impacts
                   ELSE <<"Impact assessment pending">>
        regions == IF has THEN ctx.analysis_data[1].affected_regions
                   ELSE <<"Global assessment pending">>
    IN  <<icon, "SOLAR FLARE ALERT - ", level, "FLARE CLASSIFICATION: ">>
        \o flare.class_type
        \o <<"EVENT ID: ", flare.flare_id, "TIMING INFORMATION:">>
        \o begin_text \o format_time(flare.peak_time)
        \o format_time(flare.end_time)
        \o <<"SOURCE INFORMATION:">> \o flare.source_location
        \o flare.active_region_num
        \o <<"ANALYSIS:">> \o narrative
        \o <<"POTENTIAL IMPACTS:">> \o impacts
        \o <<"AFFECTED REGIONS:">> \o regions
        \o (IF flare.linked_events # <<>> THEN <<"LINKED EVENTS">> ELSE <<>>)
        \o <<"RECOMMENDATIONS:", "REPORT METADATA:", flare.flare_id>>

\* _generate_template_report
generate_template_report(ctx) ==
    template_report_with(ctx, format_time(ctx.flare.begin_time))

\* fault injection: the AI answer is the report even when it is empty
generate_gemini_report_unchecked(ctx, key, reply) ==
    LET gemini_report == call_gemini(key, reply) IN
    IF gemini_report # <<>>
    THEN gemini_report \o GeminiFooter(ctx.flare)
    ELSE <<>>

\* _generate_gemini_report
generate_gemini_report(ctx, key, reply) ==
    LET gemini_report == call_gemini(key, reply) IN
    IF gemini_report # <<>>
    THEN gemini_report \o GeminiFooter(ctx.flare)
    ELSE generate_template_report(ctx)

\* fault injection: the Writer formats the peak time of the flare in place
WriterExecuteReformatting(ctx, key, reply) ==
    [ctx EXCEPT !.report =
                   << IF key /\ ctx.analysis_data # <<>>
                      THEN generate_gemini_report(ctx, key, reply)
                      ELSE generate_template_report(ctx) >>,
                !.flare.peak_time = format_time(@)]

\* Agent3ReportWriter.execute: the context with report set
WriterExecute(ctx, key, reply) ==
    [ctx EXCEPT !.report =
        << IF key /\ ctx.analysis_data # <<>>
           THEN generate_gemini_report(ctx, key, reply)
           ELSE generate_template_report(ctx) >>]

\* ----------------------------------------------------- Agent 4: the Notifier
\* the channels execute attempts: console and file always, email when an
\* email_config was given
Channels(email) == {"console", "file"} \cup (IF email THEN {"email"} ELSE {})

\* fault injection: the guard on the report is missing
NoReportUnguarded(ctx) == FALSE

\* "if not context.report": the report is None or the empty string
NoReport(ctx) == ctx.report = <<>> \/ ctx.report[1] = <<>>

\* the name _save_to_file gives the file:
\* reports/solar_flare_{class_type}_{now:%Y%m%d_%H%M%S}.txt; the clock is the
\* cycle number, the contexts of one cycle being distributed within one
\* second of each other
FileName(flare, now) == [ class_type |-> flare.class_type, stamp |-> now ]

\* the reports directory after _save_to_file: open(filename, 'w') creates the
\* file or replaces what a file of that name held; nothing is written when
\* the delivery fails
save_to_file(dir, flare, now, ok) ==
    IF ~ok THEN dir
    ELSE [name \in DOMAIN dir \cup {FileName(flare, now)} |->
             IF name = FileName(flare, now) THEN flare.flare_id
             ELSE dir[name]]

\* the deliveries execute attempts, in the order console, file, email: none
\* without a report; otherwise each enabled channel has its own try block, so
\* that the outcome of one does not keep the next from being attempted
Attempts(ctx, email, delivered) ==
    IF NoReport(ctx) THEN NoAttempts
    ELSE [ch \in Channels(email) |-> delivered[ch]]

\* fault injection: the deliveries share one try block, so that the first one
\* that fails keeps the later ones from being attempted
NotifierExecuteSharedTry(ctx, email, delivered) ==
    LET rank == [ch \in {"console", "file", "email"} |->
                    IF ch = "console" THEN 1 ELSE IF ch = "file" THEN 2 ELSE 3]
        reached == {ch \in Channels(email) :
                       \A d \in Channels(email) :
                           rank[d] < rank[ch] => delivered[d]}
    IN  IF NoReport(ctx) THEN ctx
        ELSE [ctx EXCEPT !.notification_results =
                 << [ch \in reached |-> delivered[ch]] >>]

\* Agent4Notifier.execute; delivered[ch] tells whether channel ch's delivery
\* (_notify_console, _save_to_file, _send_email) went through
NotifierExecute(ctx, email, delivered) ==
    IF NoReport(ctx) THEN ctx
    ELSE [ctx EXCEPT !.notification_results =
             << [ch \in Channels(email) |-> delivered[ch]] >>]

\* --------------------------------------------------------- the Orchestrator
\* the summary run_cycle appends to execution_log
LogEntry(ctx) ==
    [ timestamp |-> ctx.timestamp,
      flare_id |-> ctx.flare.flare_id,
      class |-> ctx.flare.class_type,
      notifications |-> ctx.notification_results ]

\* exception classes that derive from Exception
ExceptionSubclasses == {"AttributeError", "TypeError"}

\* fault injection: a handler that catches transport errors only
CycleHandlerCatchesRequestOnly(type) == type = "RequestException"

\* "except Exception as e" of run_cycle
CycleHandlerCatches(type) == type \in ExceptionSubclasses

\* fault injection: a cycle without contexts leaves an entry in the log
RunCycleNoContextsLogged ==
    /\ pc = "loop"
    /\ contexts = <<>>
    /\ execution_log' =
         Append(execution_log,
                [ timestamp |-> cycle, flare_id |-> "none", class |-> <<>>,
                  notifications |-> <<>> ])
    /\ result' = Returned(0)
    /\ pc' = "idle"
    /\ UNCHANGED <<cfgVars, threads, files, attempts, signals, monitorVars,
                   cycle, detectVars, loopVars, exc, histVars>>

\* "if not contexts: return 0"
RunCycleNoContexts ==
    /\ pc = "loop"
    /\ contexts = <<>>
    /\ result' = Returned(0)
    /\ pc' = "idle"
    /\ UNCHANGED <<cfgVars, threads, files, attempts, signals, monitorVars,
                   execution_log, cycle, detectVars, loopVars, exc, histVars>>

\* "for i, context in enumerate(contexts, 1)": the loop takes the next context
NextContext ==
    /\ pc = "loop"
    /\ idx < Len(contexts)
    /\ idx' = idx + 1
    /\ context' = <<contexts[idx + 1]>>
    /\ pc' = "analyst"
    /\ UNCHANGED <<cfgVars, threads, files, attempts, signals, monitorVars,
                   execution_log, cycle, detectVars, contexts, exc, result,
                   histVars>>

\* "context = self.analyst.execute(context)"
AnalystStep ==
    /\ pc = "analyst"
    /\ IF AnalystRaises(context[1].flare)
       THEN /\ exc' = [stage |-> "Analyst", type |-> "TypeError"]
            /\ pc' = "except"
            /\ UNCHANGED context
       ELSE /\ \E search_ok \in BOOLEAN, reply \in GeminiReplies :
                 context' = << AnalystExecute(context[1], gemini_api_key,
                                   serper_api_key, search_ok, reply, cycle) >>
            /\ pc' = "writer"
            /\ UNCHANGED exc
    /\ UNCHANGED <<cfgVars, threads, files, attempts, signals, monitorVars,
                   execution_log, cycle, detectVars, contexts, idx, result,
                   histVars>>

\* "context = self.writer.execute(context)"
WriterStep ==
    /\ pc = "writer"
    /\ \E reply \in GeminiReplies :
         context' = << WriterExecute(context[1], gemini_api_key, reply) >>
    /\ pc' = "notifier"
    /\ UNCHANGED <<cfgVars, threads, files, attempts, signals, monitorVars,
                   execution_log, cycle, detectVars, contexts, idx, exc,
                   result, histVars>>

\* "context = self.notifier.execute(context)"
NotifierStep ==
    /\ pc = "notifier"
    /\ \E delivered \in [{"console", "file", "email"} -> BOOLEAN] :
         /\ context' =
                << NotifierExecute(context[1], email_config, delivered) >>
         /\ attempts' = Attempts(context[1], email_config, delivered)
         /\ files' = IF NoReport(context[1]) THEN files
                      ELSE save_to_file(files, context[1].flare, cycle,
                                        delivered["file"])
    /\ pc' = "log"
    /\ UNCHANGED <<cfgVars, threads, signals, monitorVars, execution_log,
                   cycle, detectVars, contexts, idx, exc, result, histVars>>

\* fault injection: the entry is put at the head of the log
LogExecutionAtHead ==
    /\ pc = "log"
    /\ execution_log' = <<LogEntry(context[1])>> \o execution_log
    /\ context' = <<>>
    /\ attempts' = NoAttempts
    /\ pc' = "loop"
    /\ UNCHANGED <<cfgVars, threads, files, signals, monitorVars, cycle,
                   detectVars, contexts, idx, exc, result, histVars>>

\* "self.execution_log.append({...})"
LogExecution ==
    /\ pc = "log"
    /\ execution_log' = Append(execution_log, LogEntry(context[1]))
    /\ context' = <<>>
    /\ attempts' = NoAttempts
    /\ pc' = "loop"
    /\ UNCHANGED <<cfgVars, threads, files, signals, monitorVars, cycle,
                   detectVars, contexts, idx, exc, result, histVars>>

\* the loop is over: "return len(contexts)"
RunCycleComplete ==
    /\ pc = "loop"
    /\ contexts # <<>>
    /\ idx = Len(contexts)
    /\ result' = Returned(Len(contexts))
    /\ pc' = "idle"
    /\ UNCHANGED <<cfgVars, threads, files, attempts, signals, monitorVars,
                   execution_log, cycle, detectVars, loopVars, exc, histVars>>

\* an exception reaches the try block of run_cycle: "except Exception" prints
\* it and returns 0; what it does not catch leaves run_cycle
RunCycleExcept ==
    /\ pc = "except"
    /\ result' = IF CycleHandlerCatches(exc.type) THEN Returned(0) ELSE Raised
    /\ context' = <<>>
    /\ nread' = 0
    /\ new_flares' = <<>>
    /\ pc' = "idle"
    /\ UNCHANGED <<cfgVars, threads, files, attempts, signals, monitorVars,
                   execution_log, cycle, fetch_ok, contexts, idx, exc,
                   histVars>>

Next ==
    \/ RunCycle
    \/ FetchRecentFlares
    \/ DetectRecord
    \/ DetectReturn
    \/ RunCycleNoContexts
    \/ NextContext
    \/ AnalystStep
    \/ WriterStep
    \/ NotifierStep
    \/ LogExecution
    \/ RunCycleComplete
    \/ RunCycleExcept

Spec == Init /\ [][Next]_vars

\* ------------------------------------------------------- continuous mode
\* run_continuous calls run_cycle and sleeps, forever, inside
\* "try: ... except KeyboardInterrupt". pc = "idle" is the sleep between two
\* cycles. Ctrl+C makes the interpreter raise KeyboardInterrupt in the main
\* thread at whatever statement is running. KeyboardInterrupt derives from
\* BaseException: no "except Exception" catches it, a bare "except:" does.

\* the signal arrives outside the two bare "except:" blocks: the
\* KeyboardInterrupt unwinds the stage and run_cycle, whose locals are gone,
\* and reaches the handler of run_continuous, which prints the summary and
\* returns
StopSignal ==
    /\ pc # "stopped"
    /\ signals < MaxSignals
    /\ signals' = signals + 1
    /\ pc' = "stopped"
    /\ nread' = 0
    /\ new_flares' = <<>>
    /\ contexts' = <<>>
    /\ idx' = 0
    /\ context' = <<>>
    /\ attempts' = NoAttempts
    /\ UNCHANGED <<cfgVars, threads, files, monitorVars, execution_log, cycle,
                   fetch_ok, exc, result, histVars>>

\* _determine_regions when its "except:" is entered: class_magnitude = 1.0
regions_after_except(flare) ==
    IF StartsWith(flare.class_type, "X") THEN GlobalRegions ELSE SunlitRegions

\* the signal arrives while _determine_regions is inside its try block: the
\* bare "except:" takes the KeyboardInterrupt for a parse error, sets the
\* magnitude to 1.0, and Analysis goes on as if nothing had been signalled
AnalystStepInterrupted ==
    /\ pc = "analyst"
    /\ ~AnalystRaises(context[1].flare)
    /\ signals < MaxSignals
    /\ signals' = signals + 1
    /\ \E search_ok \in BOOLEAN, reply \in GeminiReplies :
         LET done == AnalystExecute(context[1], gemini_api_key,
                                    serper_api_key, search_ok, reply, cycle)
         IN  context' =
               << [done EXCEPT !.analysis_data =
                     << [@[1] EXCEPT !.affected_regions =
                            regions_after_except(done.flare)] >>] >>
    /\ pc' = "writer"
    /\ UNCHANGED <<cfgVars, threads, files, attempts, monitorVars,
                   execution_log, cycle, detectVars, contexts, idx, exc,
                   result, histVars>>

\* the signal arrives while the template report formats flare.begin_time and
\* _format_time is inside its try block: the bare "except:" returns the
\* timestamp as it is and the Writer goes on
WriterStepInterrupted ==
    /\ pc = "writer"
    /\ signals < MaxSignals
    /\ \E reply \in GeminiReplies :
         /\ ~gemini_api_key \/ context[1].analysis_data = <<>> \/ reply = <<>>
         /\ context' =
              << [context[1] EXCEPT !.report =
                    << template_report_with(context[1],
                                            context[1].flare.begin_time) >>] >>
    /\ signals' = signals + 1
    /\ pc' = "notifier"
    /\ UNCHANGED <<cfgVars, threads, files, attempts, monitorVars,
                   execution_log, cycle, detectVars, contexts, idx, exc,
                   result, histVars>>

ContinuousNext ==
    \/ Next
    \/ StopSignal
    \/ AnalystStepInterrupted
    \/ WriterStepInterrupted

ContinuousSpec == Init /\ [][ContinuousNext]_vars

\* ------------------------------------------------- concurrent requests
\* app.py keeps one SolarFlareMonitoringSystem in the global monitoring_system
\* and its route /api/run-cycle calls monitoring_system.run_cycle() in the
\* thread of the request; the server handles requests in threads of their
\* own and nothing locks the system. Each thread below handles one request.
\* A thread can be preempted between any two statements: the detect loop is
\* split where it reads the seen-set ("if flare_id in self.seen_flares") and
\* where it writes it ("self.seen_flares.add(flare_id)"). The three stages
\* touch no state the other thread's run_cycle reads before the append to the
\* log, and are taken together with it.

\* thread t has left run_cycle with the given result; its locals are gone
ThreadDone(t, e, res) ==
    [threads EXCEPT ![t] = [IdleThread EXCEPT !.pc = "done", !.exc = e,
                                              !.result = res]]

\* what "except Exception" of run_cycle returns or lets through
HandlerResult(type) == IF CycleHandlerCatches(type) THEN Returned(0) ELSE Raised

\* a request arrives: its thread calls run_cycle
RequestRunCycle(t) ==
    /\ threads[t].pc = "idle"
    /\ cycle' = cycle + 1
    /\ threads' = [threads EXCEPT ![t].pc = "fetch"]
    /\ UNCHANGED <<cfgVars, monitorVars, execution_log, pc, detectVars,
                   loopVars, exc, result, histVars, attempts, signals, files>>

\* _fetch_recent_flares in thread t
ThreadFetch(t) ==
    /\ threads[t].pc = "fetch"
    /\ \E ok \in BOOLEAN :
         threads' = [threads EXCEPT ![t].fetch_ok = ok, ![t].pc = "check"]
    /\ UNCHANGED <<cfgVars, monitorVars, execution_log, pc, cycle, detectVars,
                   loopVars, exc, result, histVars, attempts, signals, files>>

\* thread t takes the next record r of its feed and tests it against the
\* seen-set and the significance threshold (lines 239-248); a record that
\* passes is held for the rest of the iteration
ThreadCheck(t) ==
    /\ threads[t].pc = "check"
    /\ threads[t].fetch_ok
    /\ threads[t].nread < MaxRequestFeedLen
    /\ \E r \in Records :
         LET o == DetectOutcome(r, seen_flares) IN
         threads' =
             IF o \in {"AttributeError", "TypeError"}
             THEN ThreadDone(t, [stage |-> "Monitor", type |-> o],
                             HandlerResult(o))
             ELSE [threads EXCEPT
                     ![t].nread = @ + 1,
                     ![t].held = IF o = "new" THEN <<r>> ELSE <<>>,
                     ![t].pc = IF o = "new" THEN "add" ELSE "check"]
    /\ UNCHANGED <<cfgVars, monitorVars, execution_log, pc, cycle, detectVars,
                   loopVars, exc, result, histVars, attempts, signals, files>>

\* thread t ends the iteration on the record it holds: new_flares.append and
\* self.seen_flares.add (lines 262-263)
ThreadAdd(t) ==
    /\ threads[t].pc = "add"
    /\ seen_flares' = SeenAfter(seen_flares, threads[t].held[1], "new")
    /\ threads' = [threads EXCEPT
                     ![t].new_flares =
                         NewFlaresAfter(@, threads[t].held[1], "new"),
                     ![t].held = <<>>,
                     ![t].pc = "check"]
    /\ UNCHANGED <<cfgVars, last_check_time, execution_log, pc, cycle,
                   detectVars, loopVars, exc, result, histVars, attempts,
                   signals, files>>

\* the feed of thread t is exhausted: detect returns its contexts
ThreadDetectReturn(t) ==
    /\ threads[t].pc = "check"
    /\ last_check_time' = <<cycle>>
    /\ emitted' =
         emitted \o FlareIds(MakeContexts(threads[t].new_flares, cycle))
    /\ threads' = [threads EXCEPT
                     ![t].contexts = MakeContexts(threads[t].new_flares, cycle),
                     ![t].new_flares = <<>>,
                     ![t].nread = 0,
                     ![t].pc = "loop"]
    /\ UNCHANGED <<cfgVars, seen_flares, execution_log, pc, cycle, detectVars,
                   loopVars, exc, result, seen0, log0, feedIds, feedSig,
                   attempts, signals, files>>

\* one iteration of the loop of run_cycle in thread t: the three stages on
\* the next context, then the append to the log; Analysis raising ends the
\* call through the handler
ThreadProcess(t) ==
    /\ threads[t].pc = "loop"
    /\ threads[t].idx < Len(threads[t].contexts)
    /\ LET ctx == threads[t].contexts[threads[t].idx + 1] IN
       IF AnalystRaises(ctx.flare)
       THEN /\ threads' = ThreadDone(t, [stage |-> "Analyst",
                                         type |-> "TypeError"],
                                     HandlerResult("TypeError"))
            /\ UNCHANGED <<execution_log, files>>
       ELSE \E search_ok \in BOOLEAN, reply \in GeminiReplies,
               answer \in GeminiReplies,
               delivered \in [{"console", "file", "email"} -> BOOLEAN] :
              LET analysed == AnalystExecute(ctx, gemini_api_key,
                                  serper_api_key, search_ok, reply, cycle)
                  written == WriterExecute(analysed, gemini_api_key, answer)
                  notified == NotifierExecute(written, email_config,
                                              delivered)
              IN  /\ execution_log' =
                       Append(execution_log, LogEntry(notified))
                  /\ files' = save_to_file(files, ctx.flare, cycle,
                                           delivered["file"])
                  /\ threads' = [threads EXCEPT ![t].idx = @ + 1]
    /\ UNCHANGED <<cfgVars, monitorVars, pc, cycle, detectVars, loopVars, exc,
                   result, histVars, attempts, signals>>

\* the loop of thread t is over, or there was nothing to loop over:
\* run_cycle returns len(contexts)
ThreadReturn(t) ==
    /\ threads[t].pc = "loop"
    /\ threads[t].idx = Len(threads[t].contexts)
    /\ threads' = ThreadDone(t, NoExc, Returned(Len(threads[t].contexts)))
    /\ UNCHANGED <<cfgVars, monitorVars, execution_log, pc, cycle, detectVars,
                   loopVars, exc, result, histVars, attempts, signals, files>>

ConcurrentNext ==
    \E t \in Threads :
        \/ RequestRunCycle(t)
        \/ ThreadFetch(t)
        \/ ThreadCheck(t)
        \/ ThreadAdd(t)
        \/ ThreadDetectReturn(t)
        \/ ThreadProcess(t)
        \/ ThreadReturn(t)

ConcurrentSpec == Init /\ [][ConcurrentNext]_vars

\* ----------------------------------------------- the stages, called directly
\* execute() of Agent2Analyst, Agent3ReportWriter and Agent4Notifier is public:
\* a caller can hand any of them a context of its own making, in particular
\* one that no earlier stage has touched.

\* class_type values of such a flare: M1.0, X2.5, C3.2, '', B1.0, and the
\* boundary cases of the magnitude: a bare letter, 5.0, 4.9, 5, a suffix that
\* is no number
StageClassTypes ==
    { <<"M", "1", ".", "0">>, <<"X", "2", ".", "5">>, <<"C", "3", ".", "2">>,
      <<>>, <<"B", "1", ".", "0">>, <<"X">>, <<"M">>,
      <<"M", "5", ".", "0">>, <<"M", "4", ".", "9">>, <<"M", "5">>,
      <<"C", "5", ".", "0">>, <<"M", "x">> }

\* the flares a stage is called on
StageFlares ==
    { SolarFlare(r) :
        r \in [ flrID : {"a"}, classType : StageClassTypes,
                peakTime : PeakTimes,
                linkedEvents : { <<"CME-001">>, <<>> } ] }

\* a fresh AgentContext(flare=flare) is about to be handed to one of the stages
StageInit ==
    /\ gemini_api_key \in BOOLEAN
    /\ serper_api_key \in BOOLEAN
    /\ email_config \in BOOLEAN
    /\ seen_flares = {}
    /\ last_check_time = <<>>
    /\ execution_log = <<>>
    /\ pc \in {"analyst", "writer", "notifier"}
    /\ cycle = 1
    /\ nread = 0
    /\ fetch_ok = FALSE
    /\ new_flares = <<>>
    /\ \E flare \in StageFlares :
         /\ contexts = << AgentContext(flare, 1) >>
         /\ context = << AgentContext(flare, 1) >>
    /\ idx = 1
    /\ exc = NoExc
    /\ result = NoResult
    /\ seen0 = {}
    /\ log0 = 0
    /\ feedIds = {}
    /\ feedSig = {}
    /\ emitted = <<>>
    /\ attempts = NoAttempts
    /\ signals = 0
    /\ files = NoFiles
    /\ threads = [t \in Threads |-> IdleThread]

\* the caller passes the context on from stage to stage
StageNext == AnalystStep \/ WriterStep \/ NotifierStep

StageSpec == StageInit /\ [][StageNext]_vars

\* ------------------------------------------------------------------ claims
Range(seq) == {seq[k] : k \in 1..Len(seq)}

\* a detect() call has just returned its contexts to run_cycle
DetectReturned == pc = "loop" /\ idx = 0

\* a detect() call has just raised
DetectRaised == pc = "except" /\ exc.stage = "Monitor"

\* a run_cycle call has ended and no other has started
CycleEnded == pc = "idle" /\ result.kind # "none"

\* flare ids of the log entries appended by the running (or last) cycle
LoggedIds == {execution_log[k].flare_id : k \in (log0 + 1)..Len(execution_log)}

\* C1: Dedup. No identifier is emitted twice by the Monitor: once detect() has
\* returned a context for an identifier, no later detect() call returns one for
\* it, and no call returns two contexts for it.
C1_Dedup ==
    \A j, k \in 1..Len(emitted) : j # k => emitted[j] # emitted[k]

\* C1 witness: a later detect() call returned after reading an M/X record
\* whose identifier an earlier call had emitted.
C1_Witness ==
    /\ DetectReturned
    /\ cycle >= 2
    /\ \E id \in feedSig : id \in seen0 /\ id \in Range(emitted)

\* C2: Significance filter. When a detect() call ends, the identifiers it has
\* emitted are exactly those of the feed's M/X records that were not in the
\* seen-set, and every emitted context has an M or X classification.
C2_SignificanceFilter ==
    /\ DetectReturned =>
         /\ Range(FlareIds(contexts)) = feedSig \ seen0
         /\ \A k \in 1..Len(contexts) :
              contexts[k].flare.class_type[1] \in {"M", "X"}
    /\ DetectRaised => feedSig \ seen0 = {}

\* C3: In a fault-free cycle run_cycle returns the number of previously unseen
\* M/X records of the feed, and the execution log gains that many entries,
\* one per emitted event.
C3_FaultFreeCount ==
    (CycleEnded /\ exc = NoExc) =>
        /\ result = Returned(Cardinality(feedSig \ seen0))
        /\ Len(execution_log) - log0 = Cardinality(feedSig \ seen0)
        /\ LoggedIds = feedSig \ seen0

\* C3 witness: a fault-free cycle whose feed held an unseen M/X record and a
\* record the filter dropped has returned 1.
C3_Witness ==
    /\ CycleEnded
    /\ exc = NoExc
    /\ result = Returned(1)
    /\ seen0 = {}
    /\ feedIds \ feedSig # {}

\* C4 as stated: after detect() returns, the seen-set holds the identifier of
\* every record of the feed, the dropped ones included.
C4_SeenHoldsWholeFeed == DetectReturned => feedIds \subseteq seen_flares

\* C4 amended: the seen-set only ever gains identifiers of M/X records, and
\* after detect() returns it has gained exactly those of the feed's M/X
\* records; a record the significance filter drops is not marked seen.
C4_SeenHoldsSignificantOnly ==
    /\ seen_flares \subseteq seen0 \cup feedSig
    /\ DetectReturned => seen_flares = seen0 \cup feedSig

\* C4 witness: detect() returned on a feed of unseen records, one M/X and one
\* dropped, and the seen-set grew by the M/X record alone.
C4_Witness ==
    /\ DetectReturned
    /\ seen0 = {}
    /\ Cardinality(feedSig) = 1
    /\ feedIds \ feedSig # {}
    /\ seen_flares = feedSig

\* C5: Per-context fault isolation. When a stage raised while the idx-th
\* context was processed, every later context of the cycle has its
\* execution-log entry once the cycle has ended.
C5_FaultIsolation ==
    (CycleEnded /\ exc.stage \in {"Analyst", "Writer", "Notifier"}) =>
        \A k \in (idx + 1)..Len(contexts) :
            contexts[k].flare.flare_id \in LoggedIds

\* C6: The value run_cycle returns equals the number of execution-log entries
\* appended during the cycle, also when a fault cut the cycle short.
C6_PartialCount ==
    CycleEnded => result = Returned(Len(execution_log) - log0)

\* C7: run_cycle never raises to its caller: every call that has ended has
\* returned a count, whatever the Monitor or a stage raised.
C7_NeverRaises ==
    /\ result.kind # "raised"
    /\ CycleEnded => result.kind = "returned" /\ result.value \in Nat

\* C7 witness: a cycle in which a stage raised has returned.
C7_Witness ==
    CycleEnded /\ exc.stage = "Analyst" /\ result = Returned(0)

\* C8: The Monitor never propagates an exception to the Orchestrator.
C8_MonitorNeverRaises == exc.stage # "Monitor"

\* C9: The commentary of an analysis result is never empty: it is the
\* generated text, or the templated sentence when the AI call fails or the
\* capability is not configured.
C9_CommentaryFallback ==
    (context # <<>> /\ context[1].analysis_data # <<>>) =>
        LET commentary == context[1].analysis_data[1].gemini_analysis IN
        /\ commentary # <<>>
        /\ \/ commentary = fallback_analysis(context[1].flare)
           \/ gemini_api_key /\ commentary \in GeminiReplies

\* C10: Analysis never fails outright: it raises for no context the Monitor
\* emits, and every field of the analysis result it leaves is populated.
C10_AnalysisTotal ==
    /\ exc.stage # "Analyst"
    /\ (context # <<>> /\ context[1].analysis_data # <<>>) =>
         LET data == context[1].analysis_data[1] IN
         /\ data.gemini_analysis # <<>>
         /\ data.potential_impacts # <<>>
         /\ data.affected_regions # <<>>
         /\ data.severity_assessment.level \in
                {"SEVERE", "MODERATE", "MINOR", "INFO"}
         /\ context[1].flare = contexts[idx].flare

\* the context in hand
Ctx == context[1]

\* the configuration has no AI key, no search key and no mail configuration
AllDisabled == ~gemini_api_key /\ ~serper_api_key /\ ~email_config

C12_ReportTotal ==
    [][ pc = "writer" =>
            /\ pc' = "notifier"
            /\ exc' = exc
            /\ context'[1].report # <<>>
            /\ context'[1].report[1] # <<>>
            /\ \/ context'[1].report[1] = generate_template_report(context[1])
               \/ /\ gemini_api_key
                  /\ context[1].analysis_data # <<>>
                  /\ \E reply \in GeminiReplies \ {<<>>} :
                       context'[1].report[1] =
                           reply \o GeminiFooter(context[1].flare) ]_vars

\* C12 witness: the AI capability is configured and analysis data is present,
\* yet the report is the template one: the AI call returned nothing.
C12_Witness ==
    /\ pc = "notifier"
    /\ gemini_api_key
    /\ Ctx.analysis_data # <<>>
    /\ Ctx.report = << generate_template_report(Ctx) >>

\* C13: Per-channel isolation. When a report is present, distribution attempts
\* console, file, and email iff a mail configuration was supplied, whatever
\* the outcome of the others, and the outcome map has one boolean per enabled
\* channel, false exactly for the channels whose delivery failed.
C13_ChannelIsolation ==
    (pc = "log" /\ Ctx.report # <<>>) =>
        LET enabled == IF email_config THEN {"console", "file", "email"}
                       ELSE {"console", "file"}
        IN  /\ DOMAIN attempts = enabled
            /\ Ctx.notification_results # <<>>
            /\ DOMAIN Ctx.notification_results[1] = enabled
            /\ \A ch \in enabled :
                 /\ Ctx.notification_results[1][ch] \in BOOLEAN
                 /\ Ctx.notification_results[1][ch] = FALSE <=> ~attempts[ch]

\* C13 witness: the console delivery failed, and the file and email
\* deliveries were still attempted and went through.
C13_Witness ==
    /\ pc = "log"
    /\ email_config
    /\ Ctx.notification_results =
         << [ch \in {"console", "file", "email"} |-> ch # "console"] >>
    /\ attempts = Ctx.notification_results[1]

LeadingLetter ==
    IF Ctx.flare.class_type = <<>> THEN "" ELSE Ctx.flare.class_type[1]

\* C16: The severity level is a function of the leading letter of the
\* classification code alone: 3 for X, 2 for M, 1 for C, 0 for any other
\* letter and for the empty code; the label Analysis derives from it follows.
C16_SeverityByLetter ==
    LET expected == IF LeadingLetter = "X" THEN 3
                    ELSE IF LeadingLetter = "M" THEN 2
                    ELSE IF LeadingLetter = "C" THEN 1
                    ELSE 0
        label == <<"INFO", "MINOR", "MODERATE", "SEVERE">>[expected + 1]
    IN  /\ severity_level(Ctx.flare) = expected
        /\ Ctx.analysis_data # <<>> =>
             Ctx.analysis_data[1].severity_assessment.level = label

\* C16 witness: Analysis has graded a C-class flare.
C16_Witness ==
    /\ pc = "writer"
    /\ LeadingLetter = "C"
    /\ Ctx.analysis_data # <<>>
    /\ Ctx.analysis_data[1].severity_assessment.level = "MINOR"

\* the numeric magnitude of the classification code in hand, in tenths, as
\* the code reads: what follows the leading letter, 1.0 when that is missing
\* or no number
MagnitudeTenths ==
    LET c == Ctx.flare.class_type IN
    IF c = <<"X", "2", ".", "5">> THEN 25
    ELSE IF c = <<"C", "3", ".", "2">> THEN 32
    ELSE IF c = <<"M", "4", ".", "9">> THEN 49
    ELSE IF c \in { <<"M", "5", ".", "0">>, <<"M", "5">>,
                    <<"C", "5", ".", "0">> } THEN 50
    ELSE 10

\* C17: Affected-region determination never raises, and gives the global
\* region list iff the leading letter is X or the magnitude is at least 5.0,
\* a missing or unparsable magnitude counting as 1.0; otherwise it gives the
\* sunlit-hemisphere list.
C17_GlobalIffXOrFive ==
    /\ exc.stage = "Analyst" => Ctx.flare.peak_time = NoneText
    /\ Ctx.analysis_data # <<>> =>
         LET regions == Ctx.analysis_data[1].affected_regions IN
         /\ regions = GlobalRegions <=>
                (LeadingLetter = "X" \/ MagnitudeTenths >= 50)
         /\ regions # GlobalRegions => regions = SunlitRegions

\* C17 witness: Analysis has found an M5.0 flare to be global.
C17_Witness ==
    /\ pc = "writer"
    /\ Ctx.flare.class_type = <<"M", "5", ".", "0">>
    /\ Ctx.analysis_data # <<>>
    /\ Ctx.analysis_data[1].affected_regions = GlobalRegions

\* a stage is working on the context in hand, or the context awaits its
\* log entry
InStage == pc \in {"analyst", "writer", "notifier", "log"}

\* C15: When the Monitor yields no contexts, no stage is invoked, run_cycle
\* returns 0 and the execution log is as it was when the cycle started.
C15_EmptyCycle ==
    /\ InStage => contexts # <<>>
    /\ (CycleEnded /\ exc = NoExc /\ contexts = <<>>) =>
         /\ result = Returned(0)
         /\ idx = 0
         /\ context = <<>>
         /\ Len(execution_log) = log0

\* C15 witness: a second cycle, whose feed held only an M/X record the first
\* cycle had logged, has returned 0.
C15_Witness ==
    /\ CycleEnded
    /\ exc = NoExc
    /\ contexts = <<>>
    /\ cycle = 2
    /\ feedSig # {}
    /\ feedSig \subseteq seen0
    /\ log0 > 0
    /\ result = Returned(0)

\* C18: Continuous mode stops on a stop signal delivered at any point, during
\* the sleep or in the middle of a cycle: once a signal has been delivered the
\* loop has ended and the summary is printed, and every entry of the
\* execution log is complete, for an event that went through all three
\* stages.
C18_StopsOnSignal ==
    /\ signals > 0 => pc = "stopped"
    /\ \A k \in 1..Len(execution_log) :
         /\ execution_log[k].notifications # <<>>
         /\ execution_log[k].flare_id \in Range(emitted)
         /\ IsSignificant(execution_log[k].class)

\* flare ids of the log entries the running cycle has appended, in log order
NewLogIds ==
    [k \in 1..(Len(execution_log) - log0) |->
        execution_log[log0 + k].flare_id]

\* C19, the states of the loop: the contexts before the one in hand have their
\* log entries, in the order of contexts, and no other entry is new; the
\* context in hand is contexts[idx] and has been through exactly the stages
\* that precede its position.
C19_LoopState ==
    /\ pc = "loop" => NewLogIds = SubSeq(FlareIds(contexts), 1, idx)
    /\ InStage =>
         /\ NewLogIds = SubSeq(FlareIds(contexts), 1, idx - 1)
         /\ Ctx.flare = contexts[idx].flare
         /\ (Ctx.analysis_data # <<>>) <=> (pc # "analyst")
         /\ (Ctx.report # <<>>) <=> (pc \in {"notifier", "log"})
         /\ (Ctx.notification_results # <<>>) <=> (pc = "log")

\* C19, the steps: detect appends each new flare behind those of the records
\* it read before, the contexts keep that order, the loop takes them one by
\* one, and the position moves from Analysis to Report to Distribution to the
\* log append and then back to the loop.
C19_LoopStep ==
    /\ (pc = "detect" /\ pc' = "detect") =>
         \/ new_flares' = new_flares
         \/ /\ nread' = nread + 1
            /\ Len(new_flares') = Len(new_flares) + 1
            /\ SubSeq(new_flares', 1, Len(new_flares)) = new_flares
    /\ (pc = "detect" /\ pc' = "loop") =>
         FlareIds(contexts') = [k \in 1..Len(new_flares) |->
                                   new_flares[k].flare_id]
    /\ (pc = "loop" /\ pc' = "analyst") =>
         idx' = idx + 1 /\ contexts' = contexts
    /\ pc = "analyst" => pc' \in {"writer", "except"}
    /\ pc = "writer" => pc' = "notifier"
    /\ pc = "notifier" => pc' = "log"
    /\ pc = "log" =>
         /\ pc' = "loop"
         /\ execution_log' = Append(execution_log, LogEntry(context[1]))

\* C19: Within one cycle the emitted contexts are processed one at a time in
\* the order the feed returned their records: for each context Analysis
\* precedes Report precedes Distribution precedes its log append, no stage of
\* a later context starts before the log append of the earlier one, and the
\* new log entries are in feed order.
C19_InFeedOrder == []C19_LoopState /\ [][C19_LoopStep]_vars

\* C19 witness: a cycle has logged two contexts, in the order of contexts.
C19_Witness ==
    /\ pc = "loop"
    /\ idx = 2
    /\ Len(contexts) = 2
    /\ NewLogIds = FlareIds(contexts)
    /\ NewLogIds[1] # NewLogIds[2]

\* C20: The seen-set grows monotonically: no step of detect() or run_cycle(),
\* a step that raises or follows a fault included, removes an identifier.
C20_SeenMonotone == [][seen_flares \subseteq seen_flares']_vars

\* C20 witness: a second cycle whose detect() call raised has ended, and the
\* seen-set still holds what the first cycle had put into it.
C20_Witness ==
    /\ CycleEnded
    /\ cycle = 2
    /\ exc.stage = "Monitor"
    /\ seen0 # {}
    /\ seen0 \subseteq seen_flares

\* a detect() call has ended, by returning or by raising, and the cycle has
\* not gone further
DetectEnded == DetectReturned \/ DetectRaised

\* C21: The Monitor's last-check timestamp is updated at the end of every
\* detect() call: when a call has ended, whether its fetch gave records, gave
\* none or failed, the timestamp is that of this call.
C21_LastCheckUpdated == DetectEnded => last_check_time = <<cycle>>

\* the log entries whose report the file channel delivered
FiledEntries ==
    {k \in 1..Len(execution_log) :
        /\ execution_log[k].notifications # <<>>
        /\ execution_log[k].notifications[1]["file"]}

\* the file name under which the report of the k-th log entry was written:
\* the entry carries the class and the clock value of its context
EntryFileName(k) ==
    [ class_type |-> execution_log[k].class,
      stamp |-> execution_log[k].timestamp ]

\* C22: Every report the file channel delivered was written to a file of its
\* own: two logged events never share a file name, and the file of each still
\* holds its report.
C22_OwnFile ==
    /\ \A j, k \in FiledEntries : j # k => EntryFileName(j) # EntryFileName(k)
    /\ \A k \in FiledEntries :
         /\ EntryFileName(k) \in DOMAIN files
         /\ files[EntryFileName(k)] = execution_log[k].flare_id

\* C23: Only the Monitor changes the seen-set and the last-check timestamp,
\* and no stage changes the Event Record: a step of Analysis, Report,
\* Distribution or of the Orchestrator's logging leaves the seen-set, the
\* timestamp, the flare of the context in hand and the Monitor's contexts as
\* they are, and no stage writes the execution log, which only the logging
\* step extends, by the entry of the context in hand.
C23_StageFrame ==
    [][ /\ monitorVars' # monitorVars => pc = "detect"
        /\ execution_log' # execution_log => pc = "log"
        /\ InStage =>
             /\ contexts' = contexts
             /\ context' # <<>> => context'[1].flare = contexts[idx].flare
             /\ context[1].flare = contexts[idx].flare
        /\ pc = "log" =>
             /\ Len(execution_log') = Len(execution_log) + 1
             /\ SubSeq(execution_log', 1, Len(execution_log)) = execution_log
             /\ execution_log'[Len(execution_log')].flare_id =
                    contexts[idx].flare.flare_id
             /\ execution_log'[Len(execution_log')].class =
                    contexts[idx].flare.class_type ]_vars

\* C23 witness: a context has gone through the three stages and the logging;
\* the seen-set and the timestamp are those the Monitor left.
C23_Witness ==
    /\ pc = "loop"
    /\ idx = 1
    /\ Len(execution_log) = log0 + 1
    /\ execution_log[log0 + 1].flare_id = contexts[1].flare.flare_id
    /\ seen_flares = seen0 \cup feedSig
    /\ last_check_time = <<cycle>>

\* C24: No alert is lost: whenever a run_cycle call has returned, every
\* identifier of the seen-set has an entry in the execution log (an identifier
\* of the seen-set is never emitted again, C1, so that an entry it does not
\* have by then it never gets).
C24_NoAlertLost ==
    (CycleEnded /\ result.kind = "returned") =>
        seen_flares \subseteq
            {execution_log[k].flare_id : k \in 1..Len(execution_log)}

\* C25: Dedup holds under concurrent triggering: when the run_cycle calls of
\* two requests interleave on the shared system, no identifier is emitted
\* twice and no identifier has two entries in the execution log.
C25_ConcurrentDedup ==
    /\ \A j, k \in 1..Len(emitted) : j # k => emitted[j] # emitted[k]
    /\ \A j, k \in 1..Len(execution_log) :
         j # k => execution_log[j].flare_id # execution_log[k].flare_id

====
